---- MODULE Spec2Model ----
(***************************************************************************)
(* Model of toy-blog (cli.js / cli.ts): the template substitution engine   *)
(* (makePostHTML, makeIndexHTML) and the synchronous pipeline of main.     *)
(*                                                                         *)
(* An HTML string is a sequence of tokens (start tag, end tag, character   *)
(* data); a DOM node is a record with its tag, attributes, child list and  *)
(* (for a text node) its data.  Serialising a tree and parsing a string    *)
(* are separate operators, so that innerHTML / outerHTML / new JSDOM(...)  *)
(* are modelled by what they do.                                           *)
(*                                                                         *)
(* Three specifications: Spec is main of cli.js from start to end;         *)
(* SpecWalk follows one call of makePostHTML one visit at a time, on the   *)
(* tree it mutates; SpecCallbacks is the earlier main that reads the posts *)
(* directory with fs.readdir / fs.stat callbacks.                          *)
(***************************************************************************)
EXTENDS Integers, Sequences, FiniteSets, TLC

\* ------------------------------------------------------------------ bounds
\* Largest number of entries of the posts directory.
MaxFiles == 2

\* Largest number of calls of visit followed within one makePostHTML.
MaxVisits == 60

\* ------------------------------------------------------------ HTML strings
NoAttr == <<>>

Open(tag, attr) == [k |-> "open", v |-> tag, a |-> attr]
Close(tag) == [k |-> "close", v |-> tag, a |-> NoAttr]
Chr(s) == [k |-> "chr", v |-> s, a |-> NoAttr]
Doctype == [k |-> "doctype", v |-> "html", a |-> NoAttr]

\* Character data: plain characters, or markup that was escaped (&lt;b&gt;).
IsCharData(tok) == tok.k \in {"chr", "esc-open", "esc-close"}

\* A markup token written as character data.
Escape(tok) ==
    CASE tok.k = "open" -> [tok EXCEPT !.k = "esc-open"]
      [] tok.k = "close" -> [tok EXCEPT !.k = "esc-close"]
      [] OTHER -> tok

EscapeAll(str) == [n \in 1..Len(str) |-> Escape(str[n])]

\* ------------------------------------------------------------------- nodes
El(tag, attr, kids) == [tag |-> tag, attr |-> attr, kids |-> kids, data |-> <<>>]
TextNode(data) == [tag |-> "#text", attr |-> NoAttr, kids |-> <<>>, data |-> data]
Txt(s) == TextNode(<<Chr(s)>>)
IsText(node) == node.tag = "#text"

\* Elements whose content the parser reads as text only (RCDATA).
RcdataTags == {"title"}

RECURSIVE outerHTML(_), innerHTMLOf(_)
\* Serialisation of a list of sibling nodes (Element.innerHTML of their parent).
innerHTMLOf(kids) ==
    IF kids = <<>> THEN <<>>
    ELSE outerHTML(Head(kids)) \o innerHTMLOf(Tail(kids))

\* Serialisation of one node (Element.outerHTML).
outerHTML(node) ==
    IF IsText(node) THEN node.data
    ELSE <<Open(node.tag, node.attr)>> \o innerHTMLOf(node.kids) \o <<Close(node.tag)>>

innerHTML(node) == innerHTMLOf(node.kids)

\* Position after the run of character data that starts at p.
RECURSIVE TextEnd(_, _)
TextEnd(str, p) ==
    IF p > Len(str) \/ ~IsCharData(str[p]) THEN p ELSE TextEnd(str, p + 1)

\* Position of the end tag that closes an RCDATA element opened before p
\* (Len(str) + 1 when it is never closed).
RECURSIVE RcdataEnd(_, _, _)
RcdataEnd(str, p, tag) ==
    IF p > Len(str) THEN p
    ELSE IF str[p].k = "close" /\ str[p].v = tag THEN p
    ELSE RcdataEnd(str, p + 1, tag)

\* The tree builder: the sibling nodes that start at position p, up to the
\* end tag of `open` (or the end of the string). Adjacent character data
\* becomes one text node; an end tag that closes nothing is ignored.
RECURSIVE ParseNodes(_, _, _)
ParseNodes(str, p, open) ==
    IF p > Len(str) THEN [nodes |-> <<>>, next |-> p]
    ELSE LET tok == str[p] IN
      CASE tok.k = "close" ->
             IF tok.v = open THEN [nodes |-> <<>>, next |-> p + 1]
             ELSE ParseNodes(str, p + 1, open)
        [] tok.k = "open" /\ tok.v \in RcdataTags ->
             LET q == RcdataEnd(str, p + 1, tok.v)
                 raw == EscapeAll(SubSeq(str, p + 1, q - 1))
                 rest == ParseNodes(str, q + 1, open)
             IN [nodes |-> <<El(tok.v, tok.a,
                                IF raw = <<>> THEN <<>> ELSE <<TextNode(raw)>>)>>
                            \o rest.nodes,
                 next |-> rest.next]
        [] tok.k = "open" ->
             LET inner == ParseNodes(str, p + 1, tok.v)
                 rest == ParseNodes(str, inner.next, open)
             IN [nodes |-> <<El(tok.v, tok.a, inner.nodes)>> \o rest.nodes,
                 next |-> rest.next]
        [] tok.k = "doctype" -> ParseNodes(str, p + 1, open)
        [] OTHER ->
             LET q == TextEnd(str, p)
                 rest == ParseNodes(str, q, open)
             IN [nodes |-> <<TextNode(SubSeq(str, p, q - 1))>> \o rest.nodes,
                 next |-> rest.next]

NoOpenTag == "#none"

\* Fragment parsing, as done by the innerHTML and outerHTML setters.
ParseFragment(str) == ParseNodes(str, 1, NoOpenTag).nodes

\* Fragment parsing inside an element of RcdataTags: everything is text.
ParseRcdata(str) == IF str = <<>> THEN <<>> ELSE <<TextNode(EscapeAll(str))>>

\* A document that holds nothing (the parse of the empty string).
EmptyDocument == El("html", NoAttr, <<El("head", NoAttr, <<>>), El("body", NoAttr, <<>>)>>)

\* The start tags the document parser accepts inside head; any other start
\* tag, and text, ends the head: it and all that follows go to body.
HeadTags == {"title", "style", "meta", "link", "script", "base"}

\* The number of leading nodes of kids that stay in head.
RECURSIVE HeadPrefix(_, _)
HeadPrefix(kids, n) ==
    IF n > Len(kids) \/ kids[n].tag \notin HeadTags THEN n - 1
    ELSE HeadPrefix(kids, n + 1)

\* The html element as the document parser builds it from a text written as
\* <html><head>...</head><body>...</body></html>.
InsertionModes(root) ==
    IF Len(root.kids) = 2 /\ root.kids[1].tag = "head" /\ root.kids[2].tag = "body"
    THEN LET written == root.kids[1].kids
             k == HeadPrefix(written, 1)
         IN [root EXCEPT !.kids[1].kids = SubSeq(written, 1, k),
                         !.kids[2].kids = SubSeq(written, k + 1, Len(written)) \o @]
    ELSE root

\* new JSDOM(html).window.document.documentElement: the html element of the
\* string.
JSDOM(str) ==
    LET nodes == ParseFragment(str)
        roots == {n \in 1..Len(nodes) : nodes[n].tag = "html"}
    IN IF roots = {} THEN EmptyDocument
       ELSE InsertionModes(nodes[CHOOSE n \in roots : \A m \in roots : n <= m])

\* ------------------------------------------------------------ DOM queries
\* A path is the list of child indices from an element down to a descendant;
\* the empty path stands for null (no match).
NoMatch == <<>>

\* First node with the given tag among kids[n..] and their descendants, in
\* document order.
RECURSIVE QueryFrom(_, _, _)
QueryFrom(kids, n, tag) ==
    IF n > Len(kids) THEN NoMatch
    ELSE IF kids[n].tag = tag THEN <<n>>
    ELSE LET sub == QueryFrom(kids[n].kids, 1, tag)
         IN IF sub # NoMatch THEN <<n>> \o sub ELSE QueryFrom(kids, n + 1, tag)

\* element.querySelector(tag): the path of the first matching descendant.
querySelector(element, tag) == QueryFrom(element.kids, 1, tag)

\* document.querySelector(tag), the document given by its document element.
documentQuerySelector(root, tag) == QueryFrom(<<root>>, 1, tag)

RECURSIVE NodeAtKids(_, _)
NodeAtKids(kids, path) ==
    IF Len(path) = 1 THEN kids[path[1]]
    ELSE NodeAtKids(kids[path[1]].kids, Tail(path))

NodeAt(element, path) == NodeAtKids(element.kids, path)

\* The paths of all nodes with the given tag, in document order.
RECURSIVE AllPaths(_, _, _)
AllPaths(kids, n, tag) ==
    IF n > Len(kids) THEN <<>>
    ELSE (IF kids[n].tag = tag THEN <<(<<n>>)>> ELSE <<>>)
         \o LET sub == AllPaths(kids[n].kids, 1, tag)
            IN [m \in 1..Len(sub) |-> <<n>> \o sub[m]]
         \o AllPaths(kids, n + 1, tag)

querySelectorAll(root, tag) == AllPaths(<<root>>, 1, tag)

\* The kids without those at the given indices, order kept.
RECURSIVE DropIndices(_, _, _)
DropIndices(kids, n, idx) ==
    IF n > Len(kids) THEN <<>>
    ELSE (IF n \in idx THEN <<>> ELSE <<kids[n]>>) \o DropIndices(kids, n + 1, idx)

\* parent.removeChild(child) throws NotFoundError unless child is a child of
\* parent; path is the child's path from parent.
removeChildThrows(path) == Len(path) # 1

\* ------------------------------------------------------------------- dates
\* Date.parse of the date strings used by the posts below, in days; two
\* spellings of the same day parse to the same instant.
DateTable ==
    ("2024-01-01" :> 1) @@ ("Jan 1, 2024" :> 1) @@ ("2024-01-02" :> 2) @@ ("2024-01-03" :> 3)

NaN == -1

DateParse(str) ==
    IF Len(str) = 1 /\ str[1].k = "chr" /\ str[1].v \in DOMAIN DateTable
    THEN DateTable[str[1].v]
    ELSE NaN

\* Date.prototype.toDateString
toDateString(t) ==
    CASE t = 1 -> <<Chr("Mon Jan 01 2024")>>
      [] t = 2 -> <<Chr("Tue Jan 02 2024")>>
      [] t = 3 -> <<Chr("Wed Jan 03 2024")>>
      [] OTHER -> <<Chr("Invalid Date")>>

\* -------------------------------------------------------------- extraction
\* null, for a field that holds an element or null.
Null == [tag |-> "#null", attr |-> NoAttr, kids |-> <<>>, data |-> <<>>]

\* A variant of StrippedElement that also removes the flag tags that are
\* children of the container.
StrippedElementAndFlags(postElement, tp, dp, hp) ==
    [postElement EXCEPT !.kids =
        DropIndices(postElement.kids, 1,
                    {tp[1], dp[1]} \cup (IF hp = NoMatch THEN {} ELSE {hp[1]})
                    \cup {n \in 1..Len(postElement.kids) :
                             postElement.kids[n].tag \in {"toyb-draft", "toyb-star"}})]

\* The post record pushed for a file whose toyb-post element is postElement
\* and whose title, date and head lookups gave the paths tp, dp and hp: the
\* three sub-tags are removed from the container, then the flags are read.
StrippedElement(postElement, tp, dp, hp) ==
    [postElement EXCEPT !.kids =
        DropIndices(postElement.kids, 1,
                    {tp[1], dp[1]} \cup (IF hp = NoMatch THEN {} ELSE {hp[1]}))]

IsDraftOf(inputElement) == querySelector(inputElement, "toyb-draft") # NoMatch

IsStarredOf(inputElement) == querySelector(inputElement, "toyb-star") # NoMatch

MakePost(filename, postElement, tp, dp, hp) ==
    LET inputElement == StrippedElement(postElement, tp, dp, hp)
    IN [filename |-> filename,
        title |-> innerHTML(NodeAt(postElement, tp)),
        date |-> DateParse(innerHTML(NodeAt(postElement, dp))),
        headElement |-> IF hp = NoMatch THEN Null ELSE NodeAt(postElement, hp),
        inputElement |-> inputElement,
        isDraft |-> IsDraftOf(inputElement),
        isStarred |-> IsStarredOf(inputElement)]

\* A variant of TitleInvalid that only refuses a missing title tag.
TitleInvalidNullOnly(postElement, tp) == tp = NoMatch

TitleInvalid(postElement, tp) ==
    tp = NoMatch \/ innerHTML(NodeAt(postElement, tp)) = <<>>

DateInvalid(postElement, dp) ==
    DateParse(IF dp = NoMatch THEN <<>> ELSE innerHTML(NodeAt(postElement, dp))) = NaN

\* What the body of files.forEach does with one .html file, given the
\* document element of its parse: "copy" (no toyb-post), an error, or the
\* post record to push.
ReadPostFile(filename, root) ==
    LET pp == documentQuerySelector(root, "toyb-post")
        postElement == NodeAtKids(<<root>>, pp)
        tp == querySelector(postElement, "toyb-title")
        dp == querySelector(postElement, "toyb-date")
        hp == querySelector(postElement, "toyb-head")
    IN IF pp = NoMatch THEN [kind |-> "copy"]
       ELSE IF TitleInvalid(postElement, tp) THEN [kind |-> "MissingTitle"]
       ELSE IF DateInvalid(postElement, dp) THEN [kind |-> "InvalidDate"]
       ELSE IF removeChildThrows(tp) \/ removeChildThrows(dp)
               \/ (hp # NoMatch /\ removeChildThrows(hp))
            THEN [kind |-> "NotFoundError"]
       ELSE [kind |-> "post", post |-> MakePost(filename, postElement, tp, dp, hp)]

\* --------------------------------------------------------------- rendering
\* The <li><a href=...>title</a></li> items of a navigation string, the
\* href being prefix + filename.
RECURSIVE NavItems(_, _)
NavItems(posts, prefix) ==
    IF posts = <<>> THEN <<>>
    ELSE LET post == Head(posts)
         IN <<Open("li", NoAttr), Open("a", <<"href", prefix, post.filename>>)>>
            \o post.title
            \o <<Close("a"), Close("li")>>
            \o NavItems(Tail(posts), prefix)

\* navString of makePostHTML: every post.
PostNavString(posts) ==
    <<Open("navigation", <<"class", "toyb-nav">>), Open("ul", NoAttr)>>
    \o NavItems(posts, "./")
    \o <<Close("ul"), Close("navigation")>>

\* A variant of IndexNavPosts that skips nothing.
IndexNavPostsAll(posts) == posts

\* The posts the loop of makeIndexHTML does not skip.
IndexNavPosts(posts) == SelectSeq(posts, LAMBDA post : ~post.isDraft)

\* navString of makeIndexHTML.
IndexNavString(posts) ==
    <<Open("navigation", NoAttr), Open("ul", <<"class", "nav">>)>>
    \o NavItems(IndexNavPosts(posts), "posts/")
    \o <<Close("ul"), Close("navigation")>>

postTitleStringOf(post) == post.title

postDateStringOf(post) == toDateString(post.date)

postContentStringOf(post) ==
    <<Open("article", <<"class", "toyb-article">>)>>
    \o innerHTML(post.inputElement)
    \o <<Close("article")>>

\* The strings makePostHTML computes before the walk.
PostStrings(index, posts) ==
    LET post == posts[index]
    IN [post |-> post,
        navString |-> PostNavString(posts),
        postTitleString |-> postTitleStringOf(post),
        postDateString |-> postDateStringOf(post),
        postContentString |-> postContentStringOf(post)]

\* The kids with kids[n] replaced by the nodes of `by` (element.outerHTML = ...
\* seen from the parent's child list).
Splice(kids, n, by) == SubSeq(kids, 1, n - 1) \o by \o SubSeq(kids, n + 1, Len(kids))

\* visit of makePostHTML. visitPost(element, c) is the list of nodes that
\* stands in the parent's child list where element stood, once visit(element)
\* has returned; visitPostChildren(kids, n, c) is the child list once the
\* loop `for (let child of element.childNodes) visit(child)` has run from
\* index n on: the list is live, the loop goes by index.
RECURSIVE visitPost(_, _), visitPostChildren(_, _, _)
visitPost(element, c) ==
    CASE element.tag = "toyb-nav" -> ParseFragment(c.navString)
      [] element.tag = "title" ->
           <<[element EXCEPT !.kids = ParseRcdata(c.postTitleString)]>>
      [] element.tag = "toyb-title" -> ParseFragment(c.postTitleString)
      [] element.tag = "toyb-date" -> ParseFragment(c.postDateString)
      [] element.tag = "toyb-article" -> ParseFragment(c.postContentString)
      [] element.tag = "head" ->
           LET walked == visitPostChildren(element.kids, 1, c)
           IN IF c.post.headElement # Null
              THEN <<[element EXCEPT !.kids =
                        ParseFragment(innerHTMLOf(walked) \o innerHTML(c.post.headElement))]>>
              ELSE <<[element EXCEPT !.kids = walked]>>
      [] OTHER -> <<[element EXCEPT !.kids = visitPostChildren(element.kids, 1, c)]>>

visitPostChildren(kids, n, c) ==
    IF n > Len(kids) THEN kids
    ELSE visitPostChildren(Splice(kids, n, visitPost(kids[n], c)), n + 1, c)

\* visit of makeIndexHTML.
RECURSIVE visitIndex(_, _), visitIndexChildren(_, _, _)
visitIndex(element, navString) ==
    IF element.tag = "toyb-nav" THEN ParseFragment(navString)
    ELSE <<[element EXCEPT !.kids = visitIndexChildren(element.kids, 1, navString)]>>

visitIndexChildren(kids, n, navString) ==
    IF n > Len(kids) THEN kids
    ELSE visitIndexChildren(Splice(kids, n, visitIndex(kids[n], navString)), n + 1, navString)

\* A variant of makePostHTML that walks the template itself (no clone).
makePostHTMLShared(index, posts, templateDOM) ==
    LET root == visitPost(templateDOM, PostStrings(index, posts))[1]
    IN [html |-> <<Doctype>> \o outerHTML(root), postDOM |-> root, templateDOM |-> root]

\* makePostHTML: the returned string, the tree of the clone after the walk,
\* and the template tree as the call leaves it.
makePostHTML(index, posts, templateDOM) ==
    LET postDOM == JSDOM(outerHTML(templateDOM))
        root == visitPost(postDOM, PostStrings(index, posts))[1]
    IN [html |-> <<Doctype>> \o outerHTML(root), postDOM |-> root, templateDOM |-> templateDOM]

\* makeIndexHTML: the returned string and the index tree as the call leaves
\* it (the walk is done on the index template itself).
makeIndexHTML(posts, indexDOM) ==
    LET root == visitIndex(indexDOM, IndexNavString(posts))[1]
    IN [html |-> <<Doctype>> \o outerHTML(root), indexDOM |-> root]

\* ------------------------------------------- visit, one call at a time
\* The same visit of makePostHTML, taken call by call on the tree it mutates:
\* `tree` is the clone, `stack` the loops `for (let child of
\* element.childNodes)` that are running, innermost last, each with the path
\* of its element from the root and the index of the child it visits next,
\* `steps` the number of calls of visit made so far.
\* A variant of ReplacedTags without the date tag.
ReplacedTagsNoDate == {"toyb-nav", "toyb-title", "toyb-article"}

ReplacedTags == {"toyb-nav", "toyb-title", "toyb-date", "toyb-article"}

\* The string visit assigns to element.outerHTML for these tags.
ReplacementString(tag, c) ==
    CASE tag = "toyb-nav" -> c.navString
      [] tag = "toyb-title" -> c.postTitleString
      [] tag = "toyb-date" -> c.postDateString
      [] tag = "toyb-article" -> c.postContentString

\* Ghost mark, kept in the attributes of a token: the token belongs to a
\* string that visit inserted (it is not part of the template). The mark has
\* no effect on the walk, which looks at tags only.
InsertedMark == "#inserted"

MarkInserted(str) ==
    [n \in 1..Len(str) |->
        IF str[n].k = "close" THEN str[n] ELSE [str[n] EXCEPT !.a = <<InsertedMark>> \o @]]

IsMarkedAttr(attr) == attr # <<>> /\ attr[1] = InsertedMark

IsInserted(node) ==
    IF IsText(node) THEN node.data # <<>> /\ IsMarkedAttr(node.data[1].a)
    ELSE IsMarkedAttr(node.attr)

\* The child list of the element at `path` (the empty path is the root).
KidsAt(root, path) == IF path = <<>> THEN root.kids ELSE NodeAt(root, path).kids

\* The tree with the child list of the element at `path` set to kids.
RECURSIVE WithKidsAt(_, _, _)
WithKidsAt(node, path, kids) ==
    IF path = <<>> THEN [node EXCEPT !.kids = kids]
    ELSE [node EXCEPT !.kids[path[1]] = WithKidsAt(node.kids[path[1]], Tail(path), kids)]

Frame(path, n) == [path |-> path, n |-> n]

NoWalk == [status |-> "idle", tree |-> Null, stack |-> <<>>, steps |-> 0]

\* const postDOM = new JSDOM(templateDOM.serialize()), before visit(root).
StartWalk(templateDOM) ==
    [status |-> "called", tree |-> JSDOM(outerHTML(templateDOM)), stack |-> <<>>, steps |-> 0]

TopFrame(w) == w.stack[Len(w.stack)]

\* The node the innermost running loop visits next; Null when that loop is
\* at the end of its child list.
NextChild(w) ==
    LET top == TopFrame(w)
        kids == KidsAt(w.tree, top.path)
    IN IF top.n <= Len(kids) THEN kids[top.n] ELSE Null

\* visit(root): the root is the html element, so the default case starts the
\* loop over its children.
VisitRootCall(w) ==
    [w EXCEPT !.status = "walking", !.stack = <<Frame(<<>>, 1)>>, !.steps = @ + 1]

\* The innermost loop takes its next child and calls visit on it: a replaced
\* tag is replaced in the live child list, title gets its innerHTML, and
\* head and every other node start the loop over their own children.
VisitChildCall(w, c) ==
    LET top == TopFrame(w)
        kids == KidsAt(w.tree, top.path)
        child == kids[top.n]
        advanced == [w EXCEPT !.stack[Len(w.stack)].n = @ + 1, !.steps = @ + 1]
    IN CASE child.tag \in ReplacedTags ->
              [advanced EXCEPT !.tree =
                  WithKidsAt(w.tree, top.path,
                      Splice(kids, top.n,
                             ParseFragment(MarkInserted(ReplacementString(child.tag, c)))))]
         [] child.tag = "title" ->
              [advanced EXCEPT !.tree =
                  WithKidsAt(w.tree, top.path \o <<top.n>>, ParseRcdata(c.postTitleString))]
         [] OTHER ->
              [advanced EXCEPT !.stack = Append(@, Frame(top.path \o <<top.n>>, 1))]

\* A variant of VisitReturn that puts the head fragment before the content
\* of head.
VisitReturnPrepend(w, c) ==
    LET top == TopFrame(w)
        kids == KidsAt(w.tree, top.path)
        element == IF top.path = <<>> THEN w.tree ELSE NodeAt(w.tree, top.path)
        popped == [w EXCEPT !.stack = SubSeq(@, 1, Len(@) - 1),
                            !.status = IF Len(w.stack) = 1 THEN "done" ELSE @]
    IN IF element.tag = "head" /\ c.post.headElement # Null
       THEN [popped EXCEPT !.tree =
                WithKidsAt(w.tree, top.path,
                    ParseFragment(MarkInserted(innerHTML(c.post.headElement))
                                  \o innerHTMLOf(kids)))]
       ELSE popped

\* The innermost loop has reached the end of its child list: visit returns
\* (for head, after element.innerHTML += post.headElement.innerHTML).
VisitReturn(w, c) ==
    LET top == TopFrame(w)
        kids == KidsAt(w.tree, top.path)
        element == IF top.path = <<>> THEN w.tree ELSE NodeAt(w.tree, top.path)
        popped == [w EXCEPT !.stack = SubSeq(@, 1, Len(@) - 1),
                            !.status = IF Len(w.stack) = 1 THEN "done" ELSE @]
    IN IF element.tag = "head" /\ c.post.headElement # Null
       THEN [popped EXCEPT !.tree =
                WithKidsAt(w.tree, top.path,
                    ParseFragment(innerHTMLOf(kids)
                                  \o MarkInserted(innerHTML(c.post.headElement))))]
       ELSE popped

\* ----------------------------------------------------------------- sorting
\* A variant of compare that ignores the descending option.
compareAscending(a, b, descending) == a.date - b.date

\* The comparator given to posts.sort.
compare(a, b, descending) ==
    IF descending THEN b.date - a.date ELSE a.date - b.date

\* Array.prototype.sort is stable: x goes after every element that does not
\* compare greater than it.
RECURSIVE InsertSorted(_, _, _)
InsertSorted(sorted, x, descending) ==
    IF sorted = <<>> THEN <<x>>
    ELSE LET last == sorted[Len(sorted)]
         IN IF compare(last, x, descending) > 0
            THEN InsertSorted(SubSeq(sorted, 1, Len(sorted) - 1), x, descending) \o <<last>>
            ELSE sorted \o <<x>>

RECURSIVE SortFrom(_, _, _, _)
SortFrom(seq, n, acc, descending) ==
    IF n > Len(seq) THEN acc
    ELSE SortFrom(seq, n + 1, InsertSorted(acc, seq[n], descending), descending)

\* posts.sort((a, b) => ...)
sortPosts(posts, descending) == SortFrom(posts, 1, <<>>, descending)

\* ------------------------------------------------------------------ inputs
\* A document as the parser builds it: html > (head, body).
Doc(headKids, bodyKids) ==
    El("html", NoAttr, <<El("head", NoAttr, headKids), El("body", NoAttr, bodyKids)>>)

FileText(root) == outerHTML(root)

\* Post templates: a usual one; one whose toyb-article sits inside toyb-nav;
\* and three that the load-time check refuses (no toyb-article, two, one with
\* content).
PostTemplateUsual ==
    Doc(<<El("title", NoAttr, <<Txt("Blog")>>)>>,
        <<El("toyb-nav", NoAttr, <<>>),
          El("h1", NoAttr, <<Txt("Post: "), El("toyb-title", NoAttr, <<>>)>>),
          El("toyb-date", NoAttr, <<>>),
          El("toyb-article", NoAttr, <<>>),
          El("footer", NoAttr, <<Txt("bye")>>)>>)

PostTemplateArticleInNav ==
    Doc(<<>>, <<El("toyb-nav", NoAttr, <<El("toyb-article", NoAttr, <<>>)>>),
                El("toyb-title", NoAttr, <<>>)>>)

PostTemplateNoArticle == Doc(<<>>, <<El("toyb-nav", NoAttr, <<>>)>>)

PostTemplateTwoArticles ==
    Doc(<<>>, <<El("toyb-article", NoAttr, <<>>),
                El("div", NoAttr, <<El("toyb-article", NoAttr, <<>>)>>)>>)

PostTemplateFullArticle == Doc(<<>>, <<El("toyb-article", NoAttr, <<Txt("x")>>)>>)

\* Two toyb-nav tags and every replaced tag next to another one.
PostTemplateTwoNavs ==
    Doc(<<El("title", NoAttr, <<Txt("Blog")>>), El("style", NoAttr, <<Txt("css0")>>)>>,
        <<El("toyb-nav", NoAttr, <<>>),
          El("toyb-title", NoAttr, <<>>),
          El("toyb-date", NoAttr, <<>>),
          El("div", NoAttr, <<El("toyb-article", NoAttr, <<>>), El("toyb-nav", NoAttr, <<>>)>>),
          El("toyb-title", NoAttr, <<>>)>>)

\* A template file written with a toyb-nav tag inside head, between the
\* title and a style sheet.
PostTemplateNavInHead ==
    El("html", NoAttr,
       <<El("head", NoAttr, <<El("title", NoAttr, <<Txt("Blog")>>),
                              El("toyb-nav", NoAttr, <<>>),
                              El("style", NoAttr, <<Txt("css1")>>)>>),
         El("body", NoAttr, <<El("toyb-title", NoAttr, <<>>),
                              El("toyb-article", NoAttr, <<>>)>>)>>)

\* The post templates one makePostHTML call is followed with.
WalkTemplateFiles ==
    {FileText(t) : t \in {PostTemplateUsual, PostTemplateArticleInNav, PostTemplateTwoNavs,
                          PostTemplateNavInHead}}

PostTemplateFiles ==
    {FileText(t) : t \in {PostTemplateUsual, PostTemplateArticleInNav, PostTemplateNoArticle,
                          PostTemplateTwoArticles, PostTemplateFullArticle}}

IndexTemplateUsual ==
    Doc(<<El("title", NoAttr, <<Txt("Index")>>)>>,
        <<El("h1", NoAttr, <<Txt("All posts")>>), El("toyb-nav", NoAttr, <<>>)>>)

IndexTemplateFiles == {FileText(IndexTemplateUsual)}

\* A post file: a document whose body holds one toyb-post with these kids.
PostDoc(kids) == Doc(<<>>, <<El("toyb-post", NoAttr, kids)>>)

Title(kids) == El("toyb-title", NoAttr, kids)
Date(s) == El("toyb-date", NoAttr, <<Txt(s)>>)
Para(s) == El("p", NoAttr, <<Txt(s)>>)

HtmlFile(root) == [kind |-> "file", ext |-> ".html", text |-> FileText(root)]

\* The entries a posts directory may hold.
PlainPost == HtmlFile(PostDoc(<<Title(<<Txt("One")>>), Date("2024-01-01"), Para("first")>>))

RichPost ==
    HtmlFile(PostDoc(<<Title(<<Txt("Two "), El("b", NoAttr, <<Txt("bold")>>)>>),
                       Date("2024-01-02"),
                       El("toyb-head", NoAttr, <<El("style", NoAttr, <<Txt("css")>>)>>),
                       El("toyb-star", NoAttr, <<>>),
                       Para("second")>>))

DraftPost ==
    HtmlFile(PostDoc(<<Para("intro"), Date("Jan 1, 2024"), Title(<<Txt("Draft")>>),
                       El("div", NoAttr, <<El("toyb-draft", NoAttr, <<>>)>>)>>))

DraftInTitlePost ==
    HtmlFile(PostDoc(<<Title(<<Txt("Hidden"), El("toyb-draft", NoAttr, <<>>)>>),
                       Date("2024-01-03"), Para("secret")>>))

DraftInHeadPost ==
    HtmlFile(PostDoc(<<Title(<<Txt("Hidden2")>>), Date("2024-01-02"),
                       El("toyb-head", NoAttr, <<El("toyb-draft", NoAttr, <<>>)>>),
                       Para("secret2")>>))

ArticleInTitlePost ==
    HtmlFile(PostDoc(<<Title(<<Txt("Tricky"), El("toyb-article", NoAttr, <<>>)>>),
                       Date("2024-01-01"), Para("third")>>))

EmptyTitlePost == HtmlFile(PostDoc(<<Title(<<>>), Date("2024-01-01"), Para("x")>>))

NoTitlePost == HtmlFile(PostDoc(<<Date("2024-01-01"), Para("x")>>))

BadDatePost == HtmlFile(PostDoc(<<Title(<<Txt("Bad")>>), Date("someday"), Para("x")>>))

NoDatePost == HtmlFile(PostDoc(<<Title(<<Txt("Bad")>>), Para("x")>>))

NestedTitlePost ==
    HtmlFile(PostDoc(<<El("div", NoAttr, <<Title(<<Txt("Deep")>>)>>), Date("2024-01-02")>>))

\* Posts whose title holds a toyb-title tag of its own, after some text or
\* inside the second node of the title.
TitleInTitlePost ==
    HtmlFile(PostDoc(<<Title(<<Txt("Again"), Title(<<>>)>>), Date("2024-01-02"),
                       Para("fourth")>>))

TitleDeepInTitlePost ==
    HtmlFile(PostDoc(<<Title(<<Txt("Deep"), El("i", NoAttr, <<Title(<<>>)>>)>>),
                       Date("2024-01-03"), Para("fifth")>>))

PlainHtml == HtmlFile(Doc(<<>>, <<Para("not a post")>>))

OtherFile == [kind |-> "file", ext |-> ".css", text |-> <<Chr("css")>>]

Directory == [kind |-> "dir", ext |-> "", text |-> <<>>]

ValidPostEntries ==
    {PlainPost, RichPost, DraftPost, DraftInTitlePost, DraftInHeadPost, ArticleInTitlePost}

InvalidPostEntries == {EmptyTitlePost, NoTitlePost, BadDatePost, NoDatePost}

Entries ==
    ValidPostEntries \cup InvalidPostEntries
    \cup {NestedTitlePost, PlainHtml, OtherFile, Directory}

\* The name of the n-th entry of the directory listing.
BaseName(n) ==
    CASE n = 1 -> "a" [] n = 2 -> "b" [] n = 3 -> "c" [] n = 4 -> "d" [] OTHER -> "e"

FileName(files, n) == BaseName(n) \o files[n].ext

Listings == UNION {[1..n -> Entries] : n \in 0..MaxFiles}

\* The posts arrays one makePostHTML call is followed with: one post, or
\* PlainPost and one more.
WalkEntries == ValidPostEntries \cup {TitleInTitlePost, TitleDeepInTitlePost}

WalkListings == {<<e>> : e \in WalkEntries} \cup {<<PlainPost, e>> : e \in WalkEntries}

\* The posts array after files.forEach over a listing of valid posts.
PostsOf(listing) ==
    [n \in 1..Len(listing) |->
        ReadPostFile(FileName(listing, n), JSDOM(listing[n].text)).post]

\* The output directory before the run: absent, or holding a posts
\* sub-directory and files of an earlier run.
StaleFiles ==
    {[path |-> <<"index.html">>, kind |-> "stale", data |-> <<>>],
     [path |-> <<"posts", "old.html">>, kind |-> "stale", data |-> <<>>]}

OutputAbsent == [exists |-> FALSE, posts |-> FALSE, files |-> {}]
OutputStale == [exists |-> TRUE, posts |-> TRUE, files |-> StaleFiles]
OutputDirs == {OutputAbsent, OutputStale}

\* ------------------------------------------------------------- file system
\* fs.writeFileSync creates no directory: the parent must exist.
WriteThrows(out, path) ==
    IF Len(path) = 1 THEN ~out.exists ELSE ~(out.exists /\ out.posts)

PutFile(out, path, kind, data) ==
    [out EXCEPT !.files =
        {f \in @ : f.path # path} \cup {[path |-> path, kind |-> kind, data |-> data]}]

\* A variant of CopyTo that makes the directories and copies nothing.
CopyToNothing(out, path, data) == [out EXCEPT !.exists = TRUE, !.posts = TRUE]

\* fs.cpSync creates the missing parent directories of its destination.
CopyTo(out, path, data) ==
    PutFile([out EXCEPT !.exists = TRUE, !.posts = TRUE], path, "copy", data)

\* fs.rmSync(outputDir, recursive, force) then fs.mkdirSync(outputDir).
Cleaned == [exists |-> TRUE, posts |-> FALSE, files |-> {}]

\* ------------------------------------------------------------------- state
VARIABLES
    args,           \* [clean, descending]: the parsed options
    templateFiles,  \* [post, index]: the text of the two template files
    files,          \* the listing of the posts directory, once fs.readdirSync has run
    pc,             \* where main is
    postTemplate,   \* document element of the post template DOM
    indexTemplate,  \* document element of the index template DOM
    posts,          \* the posts array
    cursor,         \* index of files.forEach
    i,              \* index of the render loop (1-based)
    out,            \* the output directory
    written,        \* the writes of this run, in order
    err,            \* the error main ended with
    walk,           \* one call of visit(root) of makePostHTML, taken step by step
    process         \* the Node.js process of the callback variant of main: its
                    \* pending callbacks and whether a global Element exists

vars == <<args, templateFiles, files, pc, postTemplate, indexTemplate, posts, cursor, i,
          out, written, err, walk, process>>

NoError == [kind |-> "none", file |-> ""]

\* No callback is pending.
NoCallbacks == [globalElement |-> FALSE, callbacks |-> {}]

Init ==
    /\ args \in [clean : BOOLEAN, descending : BOOLEAN]
    /\ templateFiles \in [post : PostTemplateFiles, index : IndexTemplateFiles]
    /\ files = <<>>
    /\ pc = "readPostTemplate"
    /\ postTemplate = EmptyDocument
    /\ indexTemplate = EmptyDocument
    /\ posts = <<>>
    /\ cursor = 1
    /\ i = 1
    /\ out \in OutputDirs
    /\ written = <<>>
    /\ err = NoError
    /\ walk = NoWalk
    /\ process = NoCallbacks

Throw(kind, file) ==
    /\ pc' = "error"
    /\ err' = [kind |-> kind, file |-> file]

\* A variant of PostTemplateError that only refuses a non-empty first tag.
PostTemplateErrorLenient(root) ==
    LET postTemplateArticles == querySelectorAll(root, "toyb-article")
    IN IF Len(postTemplateArticles) >= 1
          /\ innerHTML(NodeAtKids(<<root>>, postTemplateArticles[1])) # <<>>
       THEN "ArticleNotEmpty"
       ELSE ""

\* The post template check: "" when it passes, else the error.
PostTemplateError(root) ==
    LET postTemplateArticles == querySelectorAll(root, "toyb-article")
    IN IF Len(postTemplateArticles) = 1
       THEN IF innerHTML(NodeAtKids(<<root>>, postTemplateArticles[1])) # <<>>
            THEN "ArticleNotEmpty"
            ELSE ""
       ELSE "ArticleCount"

\* 1. Read post template.
ReadPostTemplate ==
    /\ pc = "readPostTemplate"
    /\ postTemplate' = JSDOM(templateFiles.post)
    /\ IF PostTemplateError(postTemplate') # ""
       THEN Throw(PostTemplateError(postTemplate'), "")
       ELSE pc' = "readIndexTemplate" /\ err' = err
    /\ UNCHANGED <<args, templateFiles, files, indexTemplate, posts, cursor, i, out, written, walk, process>>

\* 2. Read index template.
ReadIndexTemplate ==
    /\ pc = "readIndexTemplate"
    /\ indexTemplate' = JSDOM(templateFiles.index)
    /\ pc' = "clean"
    /\ UNCHANGED <<args, templateFiles, files, postTemplate, posts, cursor, i, out, written, err, walk, process>>

\* if (args['clean']) { rmSync; mkdirSync }, then fs.readdirSync of the posts
\* directory.
CleanOutput ==
    /\ pc = "clean"
    /\ out' = IF args.clean THEN Cleaned ELSE out
    /\ files' \in Listings
    /\ pc' = "forEach"
    /\ UNCHANGED <<args, templateFiles, postTemplate, indexTemplate, posts, cursor, i,
                   written, err, walk, process>>

\* The path of an entry of the posts directory in the output directory.
PostsPath(filename) == <<"posts", filename>>

\* A variant of ForEachDone that stops after the first entry.
ForEachDoneEarly(listing, n) == n > Len(listing) \/ n > 1

\* files.forEach has gone through the whole listing.
ForEachDone(listing, n) == n > Len(listing)

\* One call of the files.forEach callback.
ForEachEntry ==
    /\ pc = "forEach"
    /\ ~ForEachDone(files, cursor)
    /\ LET entry == files[cursor]
           filename == FileName(files, cursor)
           path == PostsPath(filename)
           read == ReadPostFile(filename, JSDOM(entry.text))
       IN IF entry.kind = "file" /\ entry.ext = ".html"
          THEN CASE read.kind = "post" ->
                      /\ posts' = Append(posts, read.post)
                      /\ cursor' = cursor + 1
                      /\ UNCHANGED <<pc, err, out, written>>
                 [] read.kind = "copy" ->
                      IF WriteThrows(out, path)
                      THEN Throw("ENOENT", "") /\ UNCHANGED <<posts, cursor, out, written>>
                      ELSE /\ out' = PutFile(out, path, "copy", entry.text)
                           /\ written' = Append(written, [path |-> path, kind |-> "copy"])
                           /\ cursor' = cursor + 1
                           /\ UNCHANGED <<pc, err, posts>>
                 [] OTHER ->
                      Throw(read.kind, IF read.kind = "NotFoundError" THEN "" ELSE filename)
                      /\ UNCHANGED <<posts, cursor, out, written>>
          ELSE /\ out' = CopyTo(out, path, entry.text)
               /\ written' = Append(written, [path |-> path, kind |-> "copy"])
               /\ cursor' = cursor + 1
               /\ UNCHANGED <<pc, err, posts>>
    /\ UNCHANGED <<args, templateFiles, files, postTemplate, indexTemplate, i, walk, process>>

\* posts.sort(...), once forEach has returned.
SortPosts ==
    /\ pc = "forEach"
    /\ ForEachDone(files, cursor)
    /\ posts' = sortPosts(posts, args.descending)
    /\ pc' = "render"
    /\ i' = 1
    /\ UNCHANGED <<args, templateFiles, files, postTemplate, indexTemplate, cursor, out,
                   written, err, walk, process>>

\* A variant of RenderPost that writes no page for a draft.
RenderPostSkipDrafts ==
    /\ pc = "render"
    /\ i <= Len(posts)
    /\ LET made == makePostHTML(i, posts, postTemplate)
           path == PostsPath(posts[i].filename)
       IN /\ postTemplate' = made.templateDOM
          /\ IF posts[i].isDraft
             THEN i' = i + 1 /\ UNCHANGED <<pc, err, out, written>>
             ELSE IF WriteThrows(out, path)
             THEN Throw("ENOENT", "") /\ UNCHANGED <<i, out, written>>
             ELSE /\ out' = PutFile(out, path, "page", made.html)
                  /\ written' = Append(written, [path |-> path, kind |-> "page"])
                  /\ i' = i + 1
                  /\ UNCHANGED <<pc, err>>
    /\ UNCHANGED <<args, templateFiles, files, indexTemplate, posts, cursor, walk, process>>

\* One round of the loop over posts: makePostHTML, then writeFileSync.
RenderPost ==
    /\ pc = "render"
    /\ i <= Len(posts)
    /\ LET made == makePostHTML(i, posts, postTemplate)
           path == PostsPath(posts[i].filename)
       IN /\ postTemplate' = made.templateDOM
          /\ IF WriteThrows(out, path)
             THEN Throw("ENOENT", "") /\ UNCHANGED <<i, out, written>>
             ELSE /\ out' = PutFile(out, path, "page", made.html)
                  /\ written' = Append(written, [path |-> path, kind |-> "page"])
                  /\ i' = i + 1
                  /\ UNCHANGED <<pc, err>>
    /\ UNCHANGED <<args, templateFiles, files, indexTemplate, posts, cursor, walk, process>>

IndexPath == <<"index.html">>

\* makeIndexHTML, then writeFileSync of index.html.
RenderIndex ==
    /\ pc = "render"
    /\ i > Len(posts)
    /\ LET made == makeIndexHTML(posts, indexTemplate)
       IN /\ indexTemplate' = made.indexDOM
          /\ IF WriteThrows(out, IndexPath)
             THEN Throw("ENOENT", "") /\ UNCHANGED <<out, written>>
             ELSE /\ out' = PutFile(out, IndexPath, "index", made.html)
                  /\ written' = Append(written, [path |-> IndexPath, kind |-> "index"])
                  /\ pc' = "done"
                  /\ err' = err
    /\ UNCHANGED <<args, templateFiles, files, postTemplate, posts, cursor, i, walk, process>>

Next ==
    \/ ReadPostTemplate
    \/ ReadIndexTemplate
    \/ CleanOutput
    \/ ForEachEntry
    \/ SortPosts
    \/ RenderPost
    \/ RenderIndex

Spec == Init /\ [][Next]_vars

\* ------------------------------------------------ one makePostHTML call
\* A second specification: main is in its render loop, about to call
\* makePostHTML(i, posts, postTemplate), and the call is followed one visit
\* at a time.
mainVars == <<args, templateFiles, files, pc, postTemplate, indexTemplate, posts, cursor, i,
              out, written, err, process>>

InitWalk ==
    /\ args = [clean |-> FALSE, descending |-> FALSE]
    /\ templateFiles \in [post : WalkTemplateFiles, index : IndexTemplateFiles]
    /\ files \in WalkListings
    /\ pc = "render"
    /\ postTemplate = JSDOM(templateFiles.post)
    /\ indexTemplate = JSDOM(templateFiles.index)
    /\ posts = PostsOf(files)
    /\ cursor = Len(files) + 1
    /\ i \in 1..Len(files)
    /\ out = Cleaned
    /\ written = <<>>
    /\ err = NoError
    /\ walk = StartWalk(postTemplate)
    /\ process = NoCallbacks

CallVisitRoot ==
    /\ walk.status = "called"
    /\ walk' = VisitRootCall(walk)
    /\ UNCHANGED mainVars

CallVisitChild ==
    /\ walk.status = "walking"
    /\ walk.steps < MaxVisits
    /\ NextChild(walk) # Null
    /\ walk' = VisitChildCall(walk, PostStrings(i, posts))
    /\ UNCHANGED mainVars

ReturnFromVisit ==
    /\ walk.status = "walking"
    /\ NextChild(walk) = Null
    /\ walk' = VisitReturn(walk, PostStrings(i, posts))
    /\ UNCHANGED mainVars

NextWalk ==
    \/ CallVisitRoot
    \/ CallVisitChild
    \/ ReturnFromVisit

SpecWalk == InitWalk /\ [][NextWalk]_vars

\* ------------------------------------------- main, callback-based variant
\* A third specification: the earlier main (cli.ts as it reads the posts
\* directory with fs.readdir and fs.stat callbacks), from the point where
\* both templates have been read. The body of main runs to its end before
\* any callback does; an exception that nothing catches ends the process
\* and drops the callbacks that are still pending.

\* The posts directories this variant is run on.
CallbackEntries ==
    {PlainPost, RichPost, DraftPost, NoTitlePost, NestedTitlePost, PlainHtml, OtherFile,
     Directory}

CallbackListings == UNION {[1..n -> CallbackEntries] : n \in 0..MaxFiles}

Callback(fn, n) == [fn |-> fn, n |-> n]

\* The post record of this variant: title and date are removed from the
\* container, nothing else is looked up.
cbMakePost(filename, postElement, tp, dp) ==
    [filename |-> filename,
     title |-> innerHTML(NodeAt(postElement, tp)),
     date |-> DateParse(innerHTML(NodeAt(postElement, dp))),
     inputElement |-> [postElement EXCEPT !.kids = DropIndices(@, 1, {tp[1], dp[1]})]]

\* What the fs.stat callback does with one .html file.
cbReadPostFile(filename, root) ==
    LET pp == documentQuerySelector(root, "toyb-post")
        postElement == NodeAtKids(<<root>>, pp)
        tp == querySelector(postElement, "toyb-title")
        dp == querySelector(postElement, "toyb-date")
    IN IF pp = NoMatch THEN [kind |-> "copy"]
       ELSE IF TitleInvalid(postElement, tp) THEN [kind |-> "MissingTitle"]
       ELSE IF DateInvalid(postElement, dp) THEN [kind |-> "InvalidDate"]
       ELSE IF removeChildThrows(tp) \/ removeChildThrows(dp) THEN [kind |-> "NotFoundError"]
       ELSE [kind |-> "post", post |-> cbMakePost(filename, postElement, tp, dp)]

\* makePostHTML and makeIndexHTML of this variant, when they return: visit
\* compares element.nodeName, which is in upper case for an HTML element,
\* with the lower-case tag names, and `child instanceof Element` is false for
\* the nodes of a JSDOM window, so nothing is replaced and the string is the
\* serialisation of the template (no doctype is prepended).
cbMakePostHTML(index, all, templateDOM) == outerHTML(JSDOM(outerHTML(templateDOM)))

cbMakeIndexHTML(all, indexDOM) == outerHTML(indexDOM)

\* The loop `for (let i = 0; i < posts.length; i++)` from index n on: the
\* output directory after its writes.
RECURSIVE cbRenderFrom(_, _, _, _)
cbRenderFrom(o, all, n, templateDOM) ==
    IF n > Len(all) THEN o
    ELSE cbRenderFrom(PutFile(o, PostsPath(all[n].filename), "page",
                              cbMakePostHTML(n, all, templateDOM)),
                      all, n + 1, templateDOM)

InitCallbacks ==
    /\ args \in [clean : {FALSE}, descending : BOOLEAN]
    /\ templateFiles = [post |-> FileText(PostTemplateUsual),
                        index |-> FileText(IndexTemplateUsual)]
    /\ files \in CallbackListings
    /\ pc = "readdir"
    /\ postTemplate = JSDOM(templateFiles.post)
    /\ indexTemplate = JSDOM(templateFiles.index)
    /\ posts = <<>>
    /\ cursor = 1
    /\ i = 1
    /\ out \in OutputDirs
    /\ written = <<>>
    /\ err = NoError
    /\ walk = NoWalk
    /\ process \in [globalElement : BOOLEAN, callbacks : {{}}]

\* An exception that nothing catches: the process ends.
Uncaught(kind, file) ==
    /\ Throw(kind, file)
    /\ process' = [process EXCEPT !.callbacks = {}]

\* fs.readdir(args['posts'], callback): the call returns at once.
CallReaddir ==
    /\ pc = "readdir"
    /\ process' = [process EXCEPT !.callbacks = @ \cup {Callback("readdir", 0)}]
    /\ pc' = "sort"
    /\ UNCHANGED <<args, templateFiles, files, postTemplate, indexTemplate, posts, cursor, i,
                   out, written, err, walk>>

\* posts.sort(...) and the loop over posts, in the body of main. The first
\* makePostHTML throws a ReferenceError when no global Element exists.
SortAndRenderPosts ==
    /\ pc = "sort"
    /\ posts' = sortPosts(posts, args.descending)
    /\ i' = Len(posts) + 1
    /\ IF posts' = <<>>
       THEN pc' = "index" /\ UNCHANGED <<out, written, err, process>>
       ELSE IF ~process.globalElement
       THEN Uncaught("ReferenceError", "") /\ UNCHANGED <<out, written>>
       ELSE IF WriteThrows(out, PostsPath(posts'[1].filename))
       THEN Uncaught("ENOENT", "") /\ UNCHANGED <<out, written>>
       ELSE /\ out' = cbRenderFrom(out, posts', 1, postTemplate)
            /\ written' = written \o [n \in 1..Len(posts') |->
                                         [path |-> PostsPath(posts'[n].filename),
                                          kind |-> "page"]]
            /\ pc' = "index"
            /\ UNCHANGED <<err, process>>
    /\ UNCHANGED <<args, templateFiles, files, postTemplate, indexTemplate, cursor, walk>>

\* makeIndexHTML and the write of index.html, then main returns. The first
\* `child instanceof Element` throws a ReferenceError when no global Element
\* exists.
ReturnFromMain ==
    /\ pc = "index"
    /\ IF ~process.globalElement
       THEN Uncaught("ReferenceError", "") /\ UNCHANGED <<out, written>>
       ELSE IF WriteThrows(out, IndexPath)
       THEN Uncaught("ENOENT", "") /\ UNCHANGED <<out, written>>
       ELSE /\ out' = PutFile(out, IndexPath, "index", cbMakeIndexHTML(posts, indexTemplate))
            /\ written' = Append(written, [path |-> IndexPath, kind |-> "index"])
            /\ pc' = "returned"
            /\ UNCHANGED <<err, process>>
    /\ UNCHANGED <<args, templateFiles, files, postTemplate, indexTemplate, posts, cursor, i,
                   walk>>

\* The callback of fs.readdir: files.forEach calls fs.stat for every entry.
ReaddirCallback ==
    /\ pc = "returned"
    /\ Callback("readdir", 0) \in process.callbacks
    /\ process' = [process EXCEPT !.callbacks = {Callback("stat", n) : n \in 1..Len(files)}]
    /\ cursor' = Len(files) + 1
    /\ UNCHANGED <<args, templateFiles, files, pc, postTemplate, indexTemplate, posts, i, out,
                   written, err, walk>>

\* The callback of one fs.stat, in whatever order the calls complete.
StatCallback ==
    /\ pc = "returned"
    /\ \E n \in 1..Len(files) :
        /\ Callback("stat", n) \in process.callbacks
        /\ LET entry == files[n]
               filename == FileName(files, n)
               path == PostsPath(filename)
               read == cbReadPostFile(filename, JSDOM(entry.text))
               called == [process EXCEPT !.callbacks = @ \ {Callback("stat", n)}]
           IN IF entry.kind = "file" /\ entry.ext = ".html"
              THEN CASE read.kind = "post" ->
                          /\ posts' = Append(posts, read.post)
                          /\ process' = called
                          /\ UNCHANGED <<pc, err, out, written>>
                     [] read.kind = "copy" ->
                          IF WriteThrows(out, path)
                          THEN Uncaught("ENOENT", "") /\ UNCHANGED <<posts, out, written>>
                          ELSE /\ out' = PutFile(out, path, "copy", entry.text)
                               /\ written' = Append(written, [path |-> path, kind |-> "copy"])
                               /\ process' = called
                               /\ UNCHANGED <<pc, err, posts>>
                     [] OTHER ->
                          Uncaught(read.kind,
                                   IF read.kind = "NotFoundError" THEN "" ELSE filename)
                          /\ UNCHANGED <<posts, out, written>>
              ELSE /\ out' = CopyTo(out, path, entry.text)
                   /\ written' = Append(written, [path |-> path, kind |-> "copy"])
                   /\ process' = called
                   /\ UNCHANGED <<pc, err, posts>>
    /\ UNCHANGED <<args, templateFiles, files, postTemplate, indexTemplate, cursor, i, walk>>

NextCallbacks ==
    \/ CallReaddir
    \/ SortAndRenderPosts
    \/ ReturnFromMain
    \/ ReaddirCallback
    \/ StatCallback

SpecCallbacks == InitCallbacks /\ [][NextCallbacks]_vars

\* ------------------------------------------------------------- properties
\* Helpers of the properties below: they read the strings written to the
\* output directory.

\* The positions of html that lie inside a navigation element.
InNavigation(html, p) ==
    Cardinality({q \in 1..p : html[q].k = "open" /\ html[q].v = "navigation"})
    > Cardinality({q \in 1..p : html[q].k = "close" /\ html[q].v = "navigation"})

\* The positions of the links (a start tags) of the navigation of a page.
NavLinks(html) ==
    {p \in 1..Len(html) : html[p].k = "open" /\ html[p].v = "a" /\ InNavigation(html, p)}

LinksTo(html, href) == {p \in NavLinks(html) : html[p].a = href}

Href(prefix, filename) == <<"href", prefix, filename>>

PageFiles == {f \in out.files : f.kind = "page"}
IndexFiles == {f \in out.files : f.kind = "index"}

HasPage(filename) == \E f \in PageFiles : f.path = PostsPath(filename)
PageOf(filename) == (CHOOSE f \in PageFiles : f.path = PostsPath(filename)).data

\* Number of places where sub occurs in str.
Occurrences(str, sub) ==
    Cardinality({p \in 1..(Len(str) - Len(sub) + 1) : SubSeq(str, p, p + Len(sub) - 1) = sub})

Finished == pc = "done"

\* C1: the navigation of the index page links a post if and only if the post
\* has isDraft = false (and links nothing else), and the navigation of every
\* post page holds exactly one link for every post, drafts included.
C1_NavigationLinks ==
    /\ \A f \in IndexFiles :
         /\ \A n \in 1..Len(posts) :
              (LinksTo(f.data, Href("posts/", posts[n].filename)) # {}) <=> ~posts[n].isDraft
         /\ \A p \in NavLinks(f.data) :
              \E n \in 1..Len(posts) : f.data[p].a = Href("posts/", posts[n].filename)
    /\ \A f \in PageFiles :
         /\ \A n \in 1..Len(posts) :
              Cardinality(LinksTo(f.data, Href("./", posts[n].filename))) = 1
         /\ Cardinality(NavLinks(f.data)) = Len(posts)

\* A finished run with a draft and a post that is no draft.
C1_Witness ==
    /\ Finished
    /\ \E m, n \in 1..Len(posts) : posts[m].isDraft /\ ~posts[n].isDraft
    /\ IndexFiles # {}
    /\ PageFiles # {}

\* C2: every page written by makePostHTML holds the post's body, wrapped in
\* the article container, exactly once.
C2_ArticleExactlyOnce ==
    \A n \in 1..Len(posts) :
        HasPage(posts[n].filename) =>
            Occurrences(PageOf(posts[n].filename), postContentStringOf(posts[n])) = 1

\* The post template as it was after load.
PristineTemplate == JSDOM(templateFiles.post)

\* C3: after rendering any number of posts the post template tree is what it
\* was at load time, and each page is the page that rendering this post
\* alone from the pristine template gives.
C3_TemplateIsolation ==
    pc \in {"render", "done", "error"} /\ written # <<>> =>
        /\ postTemplate = PristineTemplate
        /\ \A n \in 1..Len(posts) :
             HasPage(posts[n].filename) =>
                 PageOf(posts[n].filename) = makePostHTML(n, posts, PristineTemplate).html

\* Two posts have been rendered from a template with placeholders.
C3_Witness ==
    /\ Finished
    /\ Cardinality(PageFiles) >= 2
    /\ querySelector(PristineTemplate, "toyb-article") # NoMatch
    /\ \A f \in PageFiles : Occurrences(f.data, <<Open("toyb-article", NoAttr)>>) = 0

\* The entries of the listing that are post files with a missing or empty
\* title tag, or a missing or unparseable date tag.
BadEntries == {n \in 1..Len(files) : files[n] \in InvalidPostEntries}

ValidationErrors == {"MissingTitle", "InvalidDate"}

NoPageWritten == \A n \in 1..Len(written) : written[n].kind \notin {"page", "index"}

\* C4 as stated: when a run ends (with a validation error, or normally),
\* every bad post file is named by the error and nothing was rendered.
C4_ErrorNamesEveryBadFile ==
    (pc = "done" \/ (pc = "error" /\ err.kind \in ValidationErrors)) =>
        \A n \in BadEntries :
            /\ pc = "error"
            /\ err.file = FileName(files, n)
            /\ NoPageWritten

\* C4, amended: with a bad post file in the listing, forEach never gets past
\* it, the run never reaches the sort, no post page and no index page is ever
\* written, and a validation error names the first bad file of the listing.
C4_NoSkipAndContinue ==
    \A n \in BadEntries :
        /\ cursor <= n
        /\ pc \notin {"render", "done"}
        /\ NoPageWritten
        /\ PageFiles = {} /\ IndexFiles = {}
        /\ pc = "error" /\ err.kind \in ValidationErrors =>
             /\ cursor \in BadEntries
             /\ \A m \in BadEntries : cursor <= m
             /\ err.file = FileName(files, cursor)

\* The run stopped at a bad post file that is not the first entry, after a
\* copy was made.
C4_Witness ==
    /\ pc = "error"
    /\ err.kind = "InvalidDate"
    /\ cursor \in BadEntries
    /\ cursor > 1
    /\ written # <<>>

BadPostTemplates ==
    {FileText(t) : t \in {PostTemplateNoArticle, PostTemplateTwoArticles,
                          PostTemplateFullArticle}}

TemplateErrors == {"ArticleCount", "ArticleNotEmpty"}

\* C5: with a post template that has no toyb-article, more than one, or a
\* non-empty one, every step of the run leaves the output directory as it is
\* and writes nothing, and the only step there is ends in the structural
\* error, also under --clean.
C5_BadTemplateLeavesOutput ==
    [][templateFiles.post \in BadPostTemplates =>
         /\ out' = out
         /\ written' = <<>>
         /\ pc' = "error"
         /\ err'.kind \in TemplateErrors]_vars

\* A run with --clean and a stale output directory ended in the error.
C5_Witness ==
    /\ pc = "error"
    /\ err.kind = "ArticleCount"
    /\ args.clean
    /\ out = OutputStale
    /\ templateFiles.post \in BadPostTemplates

\* The entry n of the listing has been ingested: its post record exists, or
\* its copy was written.
Ingested(n) ==
    \/ \E m \in 1..Len(posts) : posts[m].filename = FileName(files, n)
    \/ \E m \in 1..Len(written) :
          written[m] = [path |-> PostsPath(FileName(files, n)), kind |-> "copy"]

\* C6: once the sort has run, and whenever a page or the index has been
\* written, every entry of the listing has been ingested, and every
\* navigation written links every post file of the listing.
C6_IngestBeforeRender ==
    pc \in {"render", "done"} \/ ~NoPageWritten =>
        /\ \A n \in 1..Len(files) : Ingested(n)
        /\ Len(posts) + Cardinality({m \in 1..Len(written) : written[m].kind = "copy"})
             = Len(files)
        /\ \A f \in PageFiles : Cardinality(NavLinks(f.data)) = Len(posts)

\* A finished run over a listing with a post after a copied entry.
C6_Witness ==
    /\ Finished
    /\ Len(files) >= 2
    /\ files[1].ext # ".html"
    /\ Len(posts) >= 1

\* The place of a post in the listing, which is the order of ingestion.
IngestIndex(post) == CHOOSE n \in 1..Len(files) : FileName(files, n) = post.filename

\* The posts in the order files.forEach pushed them.
InIngestOrder ==
    LET places == {IngestIndex(posts[n]) : n \in 1..Len(posts)}
        Rank(n) == Cardinality({m \in places : m <= IngestIndex(posts[n])})
    IN [r \in 1..Len(posts) |-> posts[CHOOSE n \in 1..Len(posts) : Rank(n) = r]]

Reverse(seq) == [n \in 1..Len(seq) |-> seq[Len(seq) + 1 - n]]

NoTies == \A m, n \in 1..Len(posts) : m # n => posts[m].date # posts[n].date

\* C7: after the sort the posts are ordered by date, non-increasing when
\* descending is set and non-decreasing otherwise; posts of equal date keep
\* their order of ingestion; and with no equal dates the ascending order is
\* the reverse of the descending order.
C7_SortedStable ==
    pc \in {"render", "done"} =>
        /\ \A m, n \in 1..Len(posts) : m < n =>
             /\ args.descending => posts[m].date >= posts[n].date
             /\ ~args.descending => posts[m].date <= posts[n].date
             /\ posts[m].date = posts[n].date =>
                  IngestIndex(posts[m]) < IngestIndex(posts[n])
        /\ NoTies => sortPosts(InIngestOrder, FALSE) = Reverse(sortPosts(InIngestOrder, TRUE))

\* The sort has moved a newer post in front of an older one and kept two
\* posts of the same date in place.
C7_Witness ==
    /\ pc = "render"
    /\ args.descending
    /\ \E m, n \in 1..Len(posts) :
         m < n /\ posts[m].date >= posts[n].date
         /\ IngestIndex(posts[m]) > IngestIndex(posts[n])

\* The entries whose title tag is present with empty content and whose date
\* is valid.
EmptyTitleEntries == {n \in 1..Len(files) : files[n] = EmptyTitlePost}

\* forEach ended in an error.
ForEachThrew == pc = "error" /\ err.kind \notin TemplateErrors

\* C8 as stated: the ingestion of a post file with an empty title tag and a
\* valid date succeeds, and a finished run links the post in the index.
C8_EmptyTitleIngested ==
    \A n \in EmptyTitleEntries :
        /\ cursor = n => ~ForEachThrew
        /\ cursor > n => \E m \in 1..Len(posts) : posts[m].filename = FileName(files, n)
        /\ \A f \in IndexFiles : LinksTo(f.data, Href("posts/", FileName(files, n))) # {}

\* C8, amended: a post file with an empty title tag is never ingested: no
\* post record is made for it, forEach does not get past it, no index page is
\* written, and the error raised at it is the title error naming the file.
C8_EmptyTitleRejected ==
    \A n \in EmptyTitleEntries :
        /\ \A m \in 1..Len(posts) : posts[m].filename # FileName(files, n)
        /\ cursor <= n
        /\ IndexFiles = {}
        /\ pc # "done"
        /\ cursor = n /\ ForEachThrew =>
             err = [kind |-> "MissingTitle", file |-> FileName(files, n)]

\* forEach stopped at a post file with an empty title tag.
C8_Witness ==
    /\ pc = "error"
    /\ cursor \in EmptyTitleEntries
    /\ err.kind = "MissingTitle"

\* The toyb-post container of the file of a post holds a toyb-draft tag at
\* some depth.
ContainerHoldsDraft(post) ==
    LET root == JSDOM(files[IngestIndex(post)].text)
        container == NodeAtKids(<<root>>, documentQuerySelector(root, "toyb-post"))
    IN querySelector(container, "toyb-draft") # NoMatch

\* C9: a post whose container holds a toyb-draft tag at any depth has
\* isDraft = true, and the index page has no link to it.
C9_DraftAtAnyDepth ==
    \A n \in 1..Len(posts) :
        ContainerHoldsDraft(posts[n]) =>
            /\ posts[n].isDraft
            /\ \A f \in IndexFiles : LinksTo(f.data, Href("posts/", posts[n].filename)) = {}

PageWrites(filename) ==
    {m \in 1..Len(written) : written[m] = [path |-> PostsPath(filename), kind |-> "page"]}

\* C10: a finished run has written exactly one page for each post record,
\* drafts included, at posts/<filename>, and exactly one index page, after
\* all the post pages.
C10_OnePagePerPost ==
    Finished =>
        /\ \A n \in 1..Len(posts) :
             /\ Cardinality(PageWrites(posts[n].filename)) = 1
             /\ HasPage(posts[n].filename)
        /\ Cardinality({m \in 1..Len(written) : written[m].kind = "page"}) = Len(posts)
        /\ Cardinality({m \in 1..Len(written) : written[m].kind = "index"}) = 1
        /\ written[Len(written)] = [path |-> IndexPath, kind |-> "index"]
        /\ Cardinality(IndexFiles) = 1

\* A finished run that rendered a draft and another post.
C10_Witness ==
    /\ Finished
    /\ Len(posts) >= 2
    /\ \E n \in 1..Len(posts) : posts[n].isDraft /\ HasPage(posts[n].filename)

\* ------------------------------------------- properties of one visit(root)
\* Helpers: sizes of trees, and what the followed call works with.
RECURSIVE TreeSize(_), ForestSize(_)
ForestSize(kids) == IF kids = <<>> THEN 0 ELSE TreeSize(Head(kids)) + ForestSize(Tail(kids))

TreeSize(node) == 1 + ForestSize(node.kids)

WalkStrings == PostStrings(i, posts)

WalkClone == JSDOM(outerHTML(postTemplate))

\* The number of nodes with the given tag in the clone of the template.
TemplateCount(tag) == Len(querySelectorAll(WalkClone, tag))

RECURSIVE SumOver(_, _)
SumOver(set, f) ==
    IF set = {} THEN 0
    ELSE LET x == CHOOSE y \in set : TRUE IN f[x] + SumOver(set \ {x}, f)

\* The nodes a finished walk can have called visit on if it calls visit at
\* most once on each node of the template and on each node of the strings
\* that stand in for the template's replaced tags.
VisitBudget ==
    TreeSize(WalkClone)
    + SumOver(ReplacedTags,
              [tag \in ReplacedTags |->
                  TemplateCount(tag)
                  * ForestSize(ParseFragment(ReplacementString(tag, WalkStrings)))])
    + (IF WalkStrings.post.headElement = Null THEN 0
       ELSE ForestSize(WalkStrings.post.headElement.kids))

\* C11: visit(root) of makePostHTML terminates for every template and every
\* post, also when the title of the post parses to several nodes or holds a
\* toyb-title tag itself: the walk never makes more calls of visit than
\* there are nodes in the template and in the strings put in for its
\* replaced tags.
C11_VisitTerminates == walk.steps <= VisitBudget

\* C12: in post mode no node that was inserted as the replacement of a
\* toyb-nav, toyb-title, toyb-date or toyb-article tag is itself visited (and
\* so none is rewritten), whatever number of nodes the replacement parses
\* to: the node a running loop visits next is never an inserted one.
C12_InsertedNeverVisited == walk.status = "walking" => ~IsInserted(NextChild(walk))

\* The string without the ghost marks.
Unmarked(str) ==
    [n \in 1..Len(str) |->
        IF IsMarkedAttr(str[n].a) THEN [str[n] EXCEPT !.a = Tail(@)] ELSE str[n]]

HeadOf(root) == NodeAtKids(<<root>>, documentQuerySelector(root, "head"))

\* What a child of the template's head is to become: title holds the title
\* of the post as text, a replaced tag gives way to its string, anything
\* else stays as it is.
ResolvedHeadChild(node, c) ==
    CASE node.tag = "title" ->
           <<Open("title", node.attr)>> \o EscapeAll(c.postTitleString) \o <<Close("title")>>
      [] node.tag \in ReplacedTags -> ReplacementString(node.tag, c)
      [] OTHER -> outerHTML(node)

RECURSIVE ResolvedHead(_, _)
ResolvedHead(kids, c) ==
    IF kids = <<>> THEN <<>>
    ELSE ResolvedHeadChild(Head(kids), c) \o ResolvedHead(Tail(kids), c)

HeadFragmentOf(post) ==
    IF post.headElement = Null THEN <<>> ELSE innerHTML(post.headElement)

\* The loops over the children of a head element that are still running.
HeadLoops == {n \in 1..Len(walk.stack) :
                walk.stack[n].path # <<>> /\ NodeAt(walk.tree, walk.stack[n].path).tag = "head"}

RECURSIVE AnyInserted(_)
AnyInserted(kids) ==
    kids # <<>> /\ (IsInserted(Head(kids)) \/ AnyInserted(Head(kids).kids)
                    \/ AnyInserted(Tail(kids)))

PlaceholderTags == {"toyb-nav", "toyb-title", "toyb-date", "toyb-article"}

\* The content a placeholder of the template is to give way to.
ContentFor(tag, post, all) ==
    CASE tag = "toyb-nav" -> PostNavString(all)
      [] tag = "toyb-title" -> post.title
      [] tag = "toyb-date" -> toDateString(post.date)
      [] tag = "toyb-article" -> postContentStringOf(post)

\* The paths of the template's nodes with the given tag that do not lie
\* inside another placeholder (or inside title, which holds text only).
IsPrefix(q, path) == Len(q) <= Len(path) /\ SubSeq(path, 1, Len(q)) = q

TopLevelPaths(root, tag) ==
    LET all == querySelectorAll(root, tag)
        outer == UNION {{q : q \in {querySelectorAll(root, t)[n] :
                                     n \in 1..Len(querySelectorAll(root, t))}} :
                        t \in PlaceholderTags \cup {"title"}}
    IN {n \in 1..Len(all) : \A q \in outer : q = all[n] \/ ~IsPrefix(q, all[n])}

\* The part of a replacement that no later call of visit touches: the
\* serialisation of its first node.
FirstNodeOf(str) == outerHTML(ParseFragment(str)[1])

WalkPage == <<Doctype>> \o Unmarked(outerHTML(walk.tree))

\* C14: once visit(root) has returned, no toyb-nav, toyb-title, toyb-date or
\* toyb-article node of the template is left in the tree (the ones that are
\* left came in with a replacement), and the page holds the content of each
\* tag at least once for every node of the template with that tag that does
\* not lie inside another placeholder: no placeholder of the template
\* survives and the loop over the live child list skips none.
C14_EveryPlaceholderReplaced ==
    walk.status = "done" =>
        \A tag \in PlaceholderTags :
            /\ \A n \in 1..Len(querySelectorAll(walk.tree, tag)) :
                  IsInserted(NodeAtKids(<<walk.tree>>, querySelectorAll(walk.tree, tag)[n]))
            /\ Occurrences(WalkPage, FirstNodeOf(ContentFor(tag, posts[i], posts)))
               >= Cardinality(TopLevelPaths(WalkClone, tag))
            /\ tag # "toyb-title" =>
                  Occurrences(WalkPage, ContentFor(tag, posts[i], posts))
                  >= Cardinality(TopLevelPaths(WalkClone, tag))

\* A finished walk over a template that holds the same placeholder twice,
\* next to other placeholders, for a post whose title parses to two nodes.
C14_Witness ==
    /\ walk.status = "done"
    /\ Cardinality(TopLevelPaths(WalkClone, "toyb-nav")) = 2
    /\ Cardinality(TopLevelPaths(WalkClone, "toyb-title")) = 2
    /\ Len(ParseFragment(posts[i].title)) = 2

\* ------------------------------------------------ properties of extraction
\* Helpers: they work on the text of a post file, not on its tree.

\* Position of the end tag that closes the start tag at position p.
RECURSIVE ElementEndFrom(_, _, _)
ElementEndFrom(str, q, depth) ==
    IF q > Len(str) THEN q
    ELSE IF str[q].k = "close"
         THEN IF depth = 1 THEN q ELSE ElementEndFrom(str, q + 1, depth - 1)
    ELSE IF str[q].k = "open" THEN ElementEndFrom(str, q + 1, depth + 1)
    ELSE ElementEndFrom(str, q + 1, depth)

ElementEnd(str, p) == ElementEndFrom(str, p + 1, 1)

StartTags(str, tag) == {p \in 1..Len(str) : str[p].k = "open" /\ str[p].v = tag}

FirstStartTag(str, tag) == CHOOSE p \in StartTags(str, tag) : \A q \in StartTags(str, tag) : p <= q

\* What stands between the start tag at p and its end tag.
ContentAt(str, p) == SubSeq(str, p + 1, ElementEnd(str, p) - 1)

\* The text without its first element with the given tag.
WithoutFirst(str, tag) ==
    IF StartTags(str, tag) = {} THEN str
    ELSE LET p == FirstStartTag(str, tag)
         IN SubSeq(str, 1, p - 1) \o SubSeq(str, ElementEnd(str, p) + 1, Len(str))

\* The content of the toyb-post tag of a post file, minus the first title,
\* date and head tag.
BodyText(text) ==
    WithoutFirst(WithoutFirst(WithoutFirst(ContentAt(text, FirstStartTag(text, "toyb-post")),
                                           "toyb-title"),
                              "toyb-date"),
                 "toyb-head")

ArticleTag == Open("article", <<"class", "toyb-article">>)

ArticleStarts(html) == {p \in 1..Len(html) : html[p] = ArticleTag}

\* C15: the body of every post record is the content of the file's toyb-post
\* tag minus its first toyb-title, first toyb-date and first toyb-head tag,
\* everything else (toyb-draft and toyb-star tags included) kept in order,
\* and every article element of the post's page holds exactly that body.
C15_BodyIsContainerMinusThree ==
    \A n \in 1..Len(posts) :
        LET body == BodyText(files[IngestIndex(posts[n])].text)
        IN /\ innerHTML(posts[n].inputElement) = body
           /\ HasPage(posts[n].filename) =>
                 \A p \in ArticleStarts(PageOf(posts[n].filename)) :
                     ContentAt(PageOf(posts[n].filename), p) = body

\* A finished run with the page of a post that has a toyb-head tag and a
\* toyb-star tag: the page holds an article with the star tag in it.
C15_Witness ==
    /\ Finished
    /\ \E n \in 1..Len(posts) :
          /\ posts[n].headElement # Null
          /\ posts[n].isStarred
          /\ HasPage(posts[n].filename)
          /\ \E p \in ArticleStarts(PageOf(posts[n].filename)) :
                StartTags(ContentAt(PageOf(posts[n].filename), p), "toyb-star") # {}

\* The entries of the listing in whose toyb-post tag the lookups find a
\* title tag with content and a date tag that parses, at any depth.
HasTitleAndDate(entry) ==
    /\ entry.kind = "file" /\ entry.ext = ".html"
    /\ StartTags(entry.text, "toyb-post") # {}
    /\ LET content == ContentAt(entry.text, FirstStartTag(entry.text, "toyb-post"))
       IN /\ StartTags(content, "toyb-title") # {}
          /\ ContentAt(content, FirstStartTag(content, "toyb-title")) # <<>>
          /\ StartTags(content, "toyb-date") # {}
          /\ DateParse(ContentAt(content, FirstStartTag(content, "toyb-date"))) # NaN

\* C16: for every post file in which the lookups find a non-empty title tag
\* and a valid date tag inside the container, as children of the container
\* or deeper, files.forEach does not throw at that file, and the post record
\* made for it has a body without the title, date and head tag.
C16_ExtractionAtAnyDepth ==
    \A n \in 1..Len(files) :
        HasTitleAndDate(files[n]) =>
            /\ cursor = n => ~ForEachThrew
            /\ cursor > n =>
                  \E m \in 1..Len(posts) :
                      /\ posts[m].filename = FileName(files, n)
                      /\ innerHTML(posts[m].inputElement) = BodyText(files[n].text)

\* ----------------------------------------------------- properties of abort
\* The run has ended with the error of a post file without a title or date.
AbortedOnPost == pc = "error" /\ err.kind \in ValidationErrors

\* The files of the output directory that this run has written.
WrittenFiles == {f \in out.files : f.kind # "stale"}

\* The entries of the listing that come before the file the run stopped at
\* and are not posts: files.forEach has copied them.
CopiedBeforeAbort ==
    {n \in 1..(cursor - 1) :
        ~(files[n].kind = "file" /\ files[n].ext = ".html"
          /\ StartTags(files[n].text, "toyb-post") # {})}

\* C18 as stated: when the run aborts on a post file without title or date,
\* the output directory holds no file written by this run, neither a page
\* nor a copy of an entry that precedes the bad post.
C18_NothingWrittenAtAbort == AbortedOnPost => written = <<>> /\ WrittenFiles = {}

\* C18, amended: when the run aborts on a post file without title or date,
\* no post page and no index page has been written, and the files written by
\* this run are exactly the copies of the non-post entries that precede the
\* bad post in the listing, each with the content of its source.
C18_OnlyCopiesAtAbort ==
    AbortedOnPost =>
        /\ NoPageWritten
        /\ PageFiles = {} /\ IndexFiles = {}
        /\ Len(written) = Cardinality(CopiedBeforeAbort)
        /\ WrittenFiles = {[path |-> PostsPath(FileName(files, n)), kind |-> "copy",
                            data |-> files[n].text] : n \in CopiedBeforeAbort}

\* The run aborted on a post without a title at the second entry, after the
\* first entry, a directory or a non-HTML file, was copied, with the clean
\* option on.
C18_Witness ==
    /\ AbortedOnPost
    /\ err.kind = "MissingTitle"
    /\ args.clean
    /\ cursor = 2
    /\ files[1] \in {OtherFile, Directory}
    /\ \E f \in WrittenFiles : f.path = PostsPath(FileName(files, 1))

\* ----------------------------------- properties of the callback variant
\* The entries of the directory that are posts: their record is made when
\* their fs.stat callback runs.
PostEntries == {n \in 1..Len(files) : cbReadPostFile(FileName(files, n),
                                                     JSDOM(files[n].text)).kind = "post"}

Pushed(n) == \E m \in 1..Len(posts) : posts[m].filename = FileName(files, n)

\* The process has ended without an error: main has returned and no
\* callback is pending.
CallbacksFinished == pc = "returned" /\ process.callbacks = {}

\* C17: in the callback variant every post of the directory has been pushed
\* when posts.sort has run (and so before makePostHTML and makeIndexHTML),
\* and a run that has ended without error has written one page per post and
\* an index that links every post of the directory.
C17_AllPushedBeforeSort ==
    /\ pc \in {"index", "returned"} => \A n \in PostEntries : Pushed(n)
    /\ CallbacksFinished =>
          \A n \in PostEntries :
              /\ HasPage(FileName(files, n))
              /\ \E f \in IndexFiles : LinksTo(f.data, Href("posts/", FileName(files, n))) # {}
====
